---- MODULE Spec2Model ----
(***************************************************************************)
(* Model of the padpad input controller (components/inputController.ts)    *)
(* and of the timeline annotation of components/GamepadVisualizer.tsx.     *)
(*                                                                         *)
(* Sequences are 1-based here; a row index k of the model is the index     *)
(* k - 1 of the TypeScript arrays.  Button indices keep their source       *)
(* values (0 = A ... 16 = Home).  The ellipsis and the dash of the UI texts *)
(* are written in ASCII.                                                   *)
(***************************************************************************)
EXTENDS Integers, Sequences, FiniteSets, TLC

\* ------------------------------------------------------------------------
\* Program constants
\* ------------------------------------------------------------------------
KEYBOARD_MODE_TIMEOUT_MS == 1000
\* the timeout the hint text announces (0.2 s)
HintedIdleTimeout == 2 * 100

SEQUENCE_IDLE_TIMEOUT_MS == 500
SAMPLE_EVERY_N_FRAMES == 1
MAX_SNAPSHOT_ROWS == 20

\* null of a numeric reference (activeIndexRef, keyboardTimerRef)
NULL == -1

buttonNamesStandard ==
  << "A", "B", "X", "Y", "L1", "R1", "L2", "R2", "Select", "Start",
     "L3", "R3", "Up", "Down", "Left", "Right", "Home" >>

\* the key codes the object literal KEY_TO_BUTTON_INDEX holds
OwnKeys ==
  { "ArrowUp", "ArrowDown", "ArrowLeft", "ArrowRight", "KeyW", "KeyS", "KeyA", "KeyD",
    "KeyZ", "KeyX", "KeyC", "KeyV", "Space", "Digit1", "Digit2", "Digit3", "Digit4",
    "ShiftLeft", "ShiftRight", "ControlLeft", "ControlRight", "Tab", "Enter", "Escape" }

\* KEY_TO_BUTTON_INDEX is a plain object, so a lookup also finds what it
\* inherits from Object.prototype: a function, or for __proto__ the prototype
\* itself.  None of them is a number; each is named here by a number of its
\* own from 100 on, which is no button index.
ObjectPrototypeMember(name) ==
  CASE name = "constructor" -> 100
    [] name = "toString" -> 101
    [] name = "toLocaleString" -> 102
    [] name = "valueOf" -> 103
    [] name = "hasOwnProperty" -> 104
    [] name = "isPrototypeOf" -> 105
    [] name = "propertyIsEnumerable" -> 106
    [] name = "__proto__" -> 107
    [] name = "__defineGetter__" -> 108
    [] name = "__defineSetter__" -> 109
    [] name = "__lookupGetter__" -> 110
    [] name = "__lookupSetter__" -> 111
    [] OTHER -> NULL

\* KEY_TO_BUTTON_INDEX[code]: the index of an own key, the inherited member
\* of a name of Object.prototype, NULL (undefined) for every other code
KEY_TO_BUTTON_INDEX(code) ==
  CASE code = "ArrowUp" -> 12
    [] code = "ArrowDown" -> 13
    [] code = "ArrowLeft" -> 14
    [] code = "ArrowRight" -> 15
    [] code = "KeyW" -> 12
    [] code = "KeyS" -> 13
    [] code = "KeyA" -> 14
    [] code = "KeyD" -> 15
    [] code = "KeyZ" -> 0
    [] code = "KeyX" -> 1
    [] code = "KeyC" -> 2
    [] code = "KeyV" -> 3
    [] code = "Space" -> 0
    [] code = "Digit1" -> 4
    [] code = "Digit2" -> 5
    [] code = "Digit3" -> 6
    [] code = "Digit4" -> 7
    [] code = "ShiftLeft" -> 4
    [] code = "ShiftRight" -> 4
    [] code = "ControlLeft" -> 5
    [] code = "ControlRight" -> 5
    [] code = "Tab" -> 8
    [] code = "Enter" -> 9
    [] code = "Escape" -> 16
    [] OTHER -> ObjectPrototypeMember(code)

\* ------------------------------------------------------------------------
\* Helpers on sequences
\* ------------------------------------------------------------------------
Includes(seq, x) == \E k \in 1..Len(seq) : seq[k] = x

MinOf(S) == CHOOSE x \in S : \A y \in S : x <= y

MaxOf(a, b) == IF a >= b THEN a ELSE b

\* the elements of a set of numbers in increasing order (forEach over buttons)
RECURSIVE Ascending(_)
Ascending(S) ==
  IF S = {} THEN << >>
  ELSE LET m == MinOf(S) IN << m >> \o Ascending(S \ {m})

\* ------------------------------------------------------------------------
\* labelForIndex
\* ------------------------------------------------------------------------
\* the standard names used whatever the mapping
labelForIndexAnyMapping(index, mapping) ==
  IF index + 1 \in DOMAIN buttonNamesStandard
    THEN buttonNamesStandard[index + 1]
    ELSE "Button " \o ToString(index)

labelForIndex(index, mapping) ==
  LET isStandard == (mapping = "standard")
  IN IF isStandard /\ index + 1 \in DOMAIN buttonNamesStandard
       THEN buttonNamesStandard[index + 1]
       ELSE "Button " \o ToString(index)

\* ------------------------------------------------------------------------
\* mergeDiagonals
\* ------------------------------------------------------------------------
\* findIndex without its look at used
FindUnusedIgnoresUsed(labels, used, otherLabel) ==
  LET S == { k \in 1..Len(labels) : labels[k] = otherLabel }
  IN IF S = {} THEN 0 ELSE MinOf(S)

\* labels.findIndex(entry === otherLabel && !used.has(index)); 0 for -1
FindUnused(labels, used, otherLabel) ==
  LET S == { k \in 1..Len(labels) : labels[k] = otherLabel /\ k \notin used }
  IN IF S = {} THEN 0 ELSE MinOf(S)

\* the switch with the Down case copied from the Up case
PairAttemptsCopied(label) ==
  CASE label = "Up" -> << << "Right", "Up-Right" >>, << "Left", "Up-Left" >> >>
    [] label = "Down" -> << << "Right", "Up-Right" >>, << "Left", "Up-Left" >> >>
    [] label = "Right" -> << << "Up", "Up-Right" >>, << "Down", "Down-Right" >> >>
    [] label = "Left" -> << << "Up", "Up-Left" >>, << "Down", "Down-Left" >> >>
    [] OTHER -> << >>

\* the switch of mergeDiagonals: the partners tried for a label, in order
PairAttempts(label) ==
  CASE label = "Up" -> << << "Right", "Up-Right" >>, << "Left", "Up-Left" >> >>
    [] label = "Down" -> << << "Right", "Down-Right" >>, << "Left", "Down-Left" >> >>
    [] label = "Right" -> << << "Up", "Up-Right" >>, << "Down", "Down-Right" >> >>
    [] label = "Left" -> << << "Up", "Up-Left" >>, << "Down", "Down-Left" >> >>
    [] OTHER -> << >>

\* pair(i, a) alone: the second partner is never tried
FirstPairOnlyFirst(labels, used, label) ==
  LET tries == PairAttempts(label)
  IN IF Len(tries) = 0 \/ FindUnused(labels, used, tries[1][1]) = 0 THEN << 0, "" >>
     ELSE << FindUnused(labels, used, tries[1][1]), tries[1][2] >>

\* pair(i, a) || pair(i, b): the first attempt that finds an unused partner,
\* as << partner index, combined label >>; << 0, "" >> when none does
FirstPair(labels, used, label) ==
  LET tries == PairAttempts(label)
      hits == { t \in 1..Len(tries) : FindUnused(labels, used, tries[t][1]) # 0 }
  IN IF hits = {} THEN << 0, "" >>
     ELSE LET t == MinOf(hits)
          IN << FindUnused(labels, used, tries[t][1]), tries[t][2] >>

\* pair without used.add(otherIndex): the partner stays available
RECURSIVE MergeLoopForgetsPartner(_, _, _, _)
MergeLoopForgetsPartner(labels, i, used, merged) ==
  IF i > Len(labels) THEN merged
  ELSE IF i \in used THEN MergeLoopForgetsPartner(labels, i + 1, used, merged)
  ELSE LET p == FirstPair(labels, used, labels[i])
       IN IF p[1] # 0
            THEN MergeLoopForgetsPartner(labels, i + 1, used \cup {i}, Append(merged, p[2]))
            ELSE MergeLoopForgetsPartner(labels, i + 1, used \cup {i}, Append(merged, labels[i]))

RECURSIVE MergeLoop(_, _, _, _)
MergeLoop(labels, i, used, merged) ==
  IF i > Len(labels) THEN merged
  ELSE IF i \in used THEN MergeLoop(labels, i + 1, used, merged)
  ELSE LET p == FirstPair(labels, used, labels[i])
       IN IF p[1] # 0
            THEN MergeLoop(labels, i + 1, used \cup {i, p[1]}, Append(merged, p[2]))
            ELSE MergeLoop(labels, i + 1, used \cup {i}, Append(merged, labels[i]))

mergeDiagonals(labels) == MergeLoop(labels, 1, {}, << >>)

\* ------------------------------------------------------------------------
\* Hadouken matcher (GamepadVisualizer.tsx)
\* ------------------------------------------------------------------------
DIRECTION_LABELS ==
  { "Up", "Down", "Left", "Right", "Up-Right", "Up-Left", "Down-Right", "Down-Left" }

ALLOWED_HADOUKEN_LABELS == { "Down", "Down-Right", "Right" }

hasDisallowedDirections(labels) ==
  \E k \in 1..Len(labels) :
    labels[k] \in DIRECTION_LABELS /\ labels[k] \notin ALLOWED_HADOUKEN_LABELS

extractAllowedDirections(labels) ==
  SelectSeq(labels, LAMBDA l : l \in ALLOWED_HADOUKEN_LABELS)

\* the walk without its look for an earlier A
RECURSIVE CollectWindowsIgnoresPress(_, _, _)
CollectWindowsIgnoresPress(entries, index, windows) ==
  IF index < 1 THEN [windows |-> windows, invalid |-> FALSE]
  ELSE LET labels == entries[index].labels
       IN IF hasDisallowedDirections(labels)
            THEN [windows |-> windows, invalid |-> FALSE]
          ELSE LET allowed == extractAllowedDirections(labels)
               IN IF Len(allowed) > 0
                    THEN CollectWindowsIgnoresPress(entries, index - 1, << allowed >> \o windows)
                    ELSE CollectWindowsIgnoresPress(entries, index - 1, windows)

\* the walk with continue in place of break at a disallowed direction
RECURSIVE CollectWindowsSkipsDisallowed(_, _, _)
CollectWindowsSkipsDisallowed(entries, index, windows) ==
  IF index < 1 THEN [windows |-> windows, invalid |-> FALSE]
  ELSE LET labels == entries[index].labels
       IN IF Includes(labels, "A")
            THEN [windows |-> << >>, invalid |-> TRUE]
          ELSE IF hasDisallowedDirections(labels)
            THEN CollectWindowsSkipsDisallowed(entries, index - 1, windows)
          ELSE LET allowed == extractAllowedDirections(labels)
               IN IF Len(allowed) > 0
                    THEN CollectWindowsSkipsDisallowed(entries, index - 1, << allowed >> \o windows)
                    ELSE CollectWindowsSkipsDisallowed(entries, index - 1, windows)

\* collectDirectionWindows: walks index down from pressIndex - 1; the result
\* is [windows, invalid], windows already in timeline order
RECURSIVE CollectWindows(_, _, _)
CollectWindows(entries, index, windows) ==
  IF index < 1 THEN [windows |-> windows, invalid |-> FALSE]
  ELSE LET labels == entries[index].labels
       IN IF Includes(labels, "A")
            THEN [windows |-> << >>, invalid |-> TRUE]
          ELSE IF hasDisallowedDirections(labels)
            THEN [windows |-> windows, invalid |-> FALSE]
          ELSE LET allowed == extractAllowedDirections(labels)
               IN IF Len(allowed) > 0
                    THEN CollectWindows(entries, index - 1, << allowed >> \o windows)
                    ELSE CollectWindows(entries, index - 1, windows)

\* the walk started at the press row itself
collectDirectionWindowsFromPress(entries, pressIndex) ==
  CollectWindows(entries, pressIndex, << >>)

collectDirectionWindows(entries, pressIndex) ==
  CollectWindows(entries, pressIndex - 1, << >>)

\* the stage loop over directionSequence
RECURSIVE StageLoop(_, _, _, _)
StageLoop(seq, k, stage, sawPureDown) ==
  IF k > Len(seq) THEN FALSE
  ELSE LET directions == seq[k]
           hasDown == Includes(directions, "Down")
           hasDownRight == Includes(directions, "Down-Right")
           hasRight == Includes(directions, "Right")
           saw == sawPureDown \/ (hasDown /\ ~hasRight)
       IN IF stage = 0
            THEN StageLoop(seq, k + 1, IF hasDown THEN 1 ELSE 0, saw)
          ELSE IF stage = 1
            THEN StageLoop(seq, k + 1, IF hasDownRight THEN 2 ELSE 1, saw)
          ELSE IF hasRight \/ hasDownRight
            THEN saw
            ELSE StageLoop(seq, k + 1, 2, saw)

\* the matcher without its look at the directions of the press row
isHadoukenSequenceEndingAtAnyPress(entries, pressIndex) ==
  IF pressIndex \notin 1..Len(entries) THEN FALSE
  ELSE LET pressEntry == entries[pressIndex]
       IN IF ~Includes(pressEntry.labels, "A") THEN FALSE
          ELSE LET w == collectDirectionWindows(entries, pressIndex)
               IN IF w.invalid THEN FALSE
                  ELSE LET pressDirections == extractAllowedDirections(pressEntry.labels)
                           directionSequence ==
                             IF Len(pressDirections) > 0
                               THEN Append(w.windows, pressDirections)
                               ELSE w.windows
                       IN IF Len(directionSequence) = 0 THEN FALSE
                          ELSE StageLoop(directionSequence, 1, 0, FALSE)

isHadoukenSequenceEndingAt(entries, pressIndex) ==
  IF pressIndex \notin 1..Len(entries) THEN FALSE
  ELSE LET pressEntry == entries[pressIndex]
       IN IF ~Includes(pressEntry.labels, "A") THEN FALSE
          ELSE IF hasDisallowedDirections(pressEntry.labels) THEN FALSE
          ELSE LET w == collectDirectionWindows(entries, pressIndex)
               IN IF w.invalid THEN FALSE
                  ELSE LET pressDirections == extractAllowedDirections(pressEntry.labels)
                           directionSequence ==
                             IF Len(pressDirections) > 0
                               THEN Append(w.windows, pressDirections)
                               ELSE w.windows
                       IN IF Len(directionSequence) = 0 THEN FALSE
                          ELSE StageLoop(directionSequence, 1, 0, FALSE)

findHadoukenAEntryIndices(entries) ==
  { index \in 1..Len(entries) :
      Includes(entries[index].labels, "A") /\ isHadoukenSequenceEndingAt(entries, index) }

\* the annotated rows applyTimeline hands to setTimelineEntries
Annotate(entries) ==
  LET hadoukenIndices == findHadoukenAEntryIndices(entries)
  IN [ index \in 1..Len(entries) |->
         [labels |-> entries[index].labels,
          duration |-> entries[index].duration,
          hadouken |-> index \in hadoukenIndices] ]

\* ------------------------------------------------------------------------
\* Bounds of the model
\* ------------------------------------------------------------------------
MaxEvents == 1         \* gamepad events dispatched but not yet handled
MaxFrames == 2         \* animation frames of a run of Spec
MotionFrames == 4      \* animation frames of a run of SpecMotion
LongFrames == 23       \* animation frames of a run of SpecLong
WarmupRows == 19       \* rows of the timeline built by alternating input in SpecLong
LabelFrames == 1       \* animation frames of a run of SpecLabels
LiveFrames == 1        \* animation frames of a run of SpecLive
MaxUnheard == 2        \* key events counted while no listener is registered
FlagFrames == 7        \* animation frames of a run of SpecFlags
ScrollFrames == 22     \* animation frames of a run of SpecScroll
KeyFrames == 2         \* animation frames of a run of SpecKeys
RestartFrames == 6     \* animation frames of a run of SpecRestart
StartTime == 1000      \* Date.now(), kept as the origin of the stored time stamps

\* the slots of navigator.getGamepads()
Slots == { 0, 1 }

\* an empty slot of getGamepads(), and the absent activePad
NoPad == [index |-> NULL, mapping |-> "none"]

Pad(i, m) == [index |-> i, mapping |-> m]

PadId(pad) == "Gamepad " \o ToString(pad.index)

NoInput == [kind |-> "none", mapping |-> "none", pressed |-> {}]

\* ------------------------------------------------------------------------
\* State
\* ------------------------------------------------------------------------
VARIABLES
  pads,                 \* navigator.getGamepads(): slot -> Gamepad or NoPad
  events,               \* gamepadconnected / gamepaddisconnected events not yet handled
  timers,               \* pending window.setTimeout timers: [id, remaining ms]
  now,                  \* Date.now()
  activeIndex,          \* activeIndexRef.current
  keyboardModeEnabled,  \* keyboardModeEnabledRef.current
  keyboardPressed,      \* keyboardPressedRef.current
  keyboardTimer,        \* keyboardTimerRef.current
  timeline,             \* timelineRef.current
  timelineEntries,      \* the annotated rows published by applyTimeline
  sequenceActive,       \* sequenceActiveRef.current
  lastInputAt,          \* lastInputAtRef.current
  frameCounter,         \* frameCounterRef.current
  uiState,              \* uiStateRef.current
  apiSupported,         \* navigator offers getGamepads or webkitGetGamepads
  listening,            \* the mount effect has registered the four event listeners
  rafRef,               \* rafRef.current: the animation frame requested, or NULL
  unheardKeys,          \* history: key events dispatched with no listener registered
  keysHeld,             \* history: mapped keys that went down in this keyboard mode and are still down
  activePad,            \* updateLoop's activePad in the latest frame
  pressedLabels,        \* sampleTimeline's pressedLabels in the latest sample
  samplesInFrame,       \* history: calls of sampleTimeline in the latest frame
  runFrames,            \* history: consecutive sampled frames showing the last row's labels
  motion                \* history: progress of the frames through Down, Down+Right, Right, Right+A

vars ==
  << pads, events, timers, now, activeIndex, keyboardModeEnabled,
     keyboardPressed, keyboardTimer, timeline, timelineEntries, sequenceActive,
     lastInputAt, frameCounter, uiState, apiSupported, listening, rafRef,
     unheardKeys, keysHeld, activePad, pressedLabels, samplesInFrame, runFrames, motion >>

envVars == << pads, events >>
mountVars == << apiSupported, listening, rafRef, unheardKeys >>
keyboardVars == << keyboardModeEnabled, keyboardPressed, keysHeld >>
timelineVars == << timeline, timelineEntries, sequenceActive, lastInputAt >>
frameVars == << frameCounter, activePad, pressedLabels, samplesInFrame, runFrames, motion >>

\* ------------------------------------------------------------------------
\* UI states
\* ------------------------------------------------------------------------
INITIAL_UI_STATE ==
  [gamepadName |-> "No gamepad connected",
   statusText |-> "Waiting...",
   statusVariant |-> "disconnected",
   hint |-> "Press any button on your controller to begin."]

ConnectedUi(gamepad) ==
  [gamepadName |-> PadId(gamepad),
   statusText |-> "Connected",
   statusVariant |-> "connected",
   hint |-> "Sampling every 2 frames; showing last 30 snapshots (resets after 0.2s idle)."]

KeyboardUi ==
  [gamepadName |-> "Keyboard emulation",
   statusText |-> "Keyboard mode",
   statusVariant |-> "connected",
   hint |-> "WASD/arrows, Z/X/C/V, Space/Enter, Shift/Ctrl, Tab/1-4. Showing last 30 snapshots (reset after 0.2s idle)."]

\* updateUiForWaiting
WaitingUi ==
  [gamepadName |-> "No gamepad connected",
   statusText |-> "Waiting...",
   statusVariant |-> "disconnected",
   hint |-> "Press any button on your controller to begin."]

\* ------------------------------------------------------------------------
\* GamepadInputSource
\* ------------------------------------------------------------------------
\* the pick without its look at activeIndexRef: always the lowest slot
pickLowestGamepad(ps, active) ==
  LET present == { i \in DOMAIN ps : ps[i] # NoPad }
  IN IF present # {} THEN MinOf(present) ELSE NULL

\* pickActiveGamepad: the index it leaves in activeIndexRef (NULL when no pad)
pickActiveGamepad(ps, active) ==
  IF active # NULL /\ active \in DOMAIN ps /\ ps[active] # NoPad THEN active
  ELSE LET present == { i \in DOMAIN ps : ps[i] # NoPad }
       IN IF present # {} THEN MinOf(present) ELSE NULL

\* the gamepad pickActiveGamepad returns, which getSnapshot hands on.  The
\* currentSnapshot field it also writes is read only by start(), right after
\* getSnapshot has written it, and is not kept as state.
PickedPad(ps, active) ==
  LET i == pickActiveGamepad(ps, active)
  IN IF i = NULL THEN NoPad ELSE ps[i]

\* ------------------------------------------------------------------------
\* Timeline
\* ------------------------------------------------------------------------
\* a === b on two arrays: never true of a fresh array
arraysEqualByReference(a, b) == FALSE

arraysEqual(a, b) ==
  Len(a) = Len(b) /\ \A i \in 1..Len(a) : a[i] = b[i]

\* the labels collected as if every gamepad had the standard mapping
PressedLabelsOfStandard(pad) ==
  LET order == Ascending(pad.pressed)
  IN [ k \in 1..Len(order) |-> labelForIndex(order[k], "standard") ]

\* the labels sampleTimeline collects from the pressed buttons, in index order
PressedLabelsOf(pad) ==
  LET order == Ascending(pad.pressed)
  IN [ k \in 1..Len(order) |-> labelForIndex(order[k], pad.mapping) ]

\* the shift taken one row late
PushRowLate(rows, row) ==
  LET pushed == Append(rows, row)
  IN IF Len(pushed) > MAX_SNAPSHOT_ROWS + 1 THEN Tail(pushed) ELSE pushed

\* pop in place of shift: the row just pushed is the one removed
PushRowDropsNewest(rows, row) ==
  LET pushed == Append(rows, row)
  IN IF Len(pushed) > MAX_SNAPSHOT_ROWS THEN SubSeq(pushed, 1, MAX_SNAPSHOT_ROWS) ELSE pushed

\* timeline.push(row); if (timeline.length > MAX_SNAPSHOT_ROWS) timeline.shift()
PushRow(rows, row) ==
  LET pushed == Append(rows, row)
  IN IF Len(pushed) > MAX_SNAPSHOT_ROWS THEN Tail(pushed) ELSE pushed

\* sampleTimeline: the timeline after one sample of pad
sampleTimeline(rows, pad) ==
  LET mergedLabels == mergeDiagonals(PressedLabelsOf(pad))
  IN IF Len(rows) > 0 /\ arraysEqual(mergedLabels, rows[Len(rows)].labels)
       THEN [rows EXCEPT ![Len(rows)].duration = @ + 1]
       ELSE PushRow(rows, [labels |-> mergedLabels, duration |-> 1])

\* ------------------------------------------------------------------------
\* Keyboard fallback timer
\* ------------------------------------------------------------------------
\* the id window.setTimeout hands out: the smallest one not pending
FreshTimerId(ts) == MinOf({ n \in 1..(Cardinality(ts) + 1) : \A t \in ts : t.id # n })

\* cancelKeyboardFallback: the pending timers afterwards
cancelKeyboardFallback(ts, ref) ==
  IF ref # NULL THEN { t \in ts : t.id # ref } ELSE ts

\* scheduleKeyboardFallback without its early return
scheduleKeyboardFallbackUnguarded(ts, ref) ==
  LET id == FreshTimerId(ts)
  IN << ts \cup { [id |-> id, remaining |-> KEYBOARD_MODE_TIMEOUT_MS] }, id >>

\* scheduleKeyboardFallback: << pending timers, keyboardTimerRef >> afterwards
scheduleKeyboardFallback(ts, ref) ==
  IF ref # NULL THEN << ts, ref >>
  ELSE LET id == FreshTimerId(ts)
       IN << ts \cup { [id |-> id, remaining |-> KEYBOARD_MODE_TIMEOUT_MS] }, id >>

\* ------------------------------------------------------------------------
\* Initial state: GamepadVisualizer's refs, then the mount effect.  With a
\* Gamepad API the effect registers the listeners, schedules the keyboard
\* fallback and requests the first frame; without one it shows that and
\* returns.  The pads the browser lists at that moment are the environment's.
\* ------------------------------------------------------------------------
UnsupportedUi ==
  [gamepadName |-> "Try Chrome/Edge/Firefox",
   statusText |-> "Gamepad API not supported",
   statusVariant |-> "disconnected",
   hint |-> ""]

\* the effect without its early return
mountEffectUnguarded(api) ==
  LET scheduled == scheduleKeyboardFallback({}, NULL)
  IN [uiState |-> INITIAL_UI_STATE, listening |-> TRUE,
      timers |-> scheduled[1], keyboardTimer |-> scheduled[2], rafRef |-> 1]

\* what the mount effect leaves behind; api: getGamepads or webkitGetGamepads exists
mountEffect(api) ==
  IF ~api
    THEN [uiState |-> UnsupportedUi, listening |-> FALSE,
          timers |-> {}, keyboardTimer |-> NULL, rafRef |-> NULL]
    ELSE LET scheduled == scheduleKeyboardFallback({}, NULL)
         IN [uiState |-> INITIAL_UI_STATE, listening |-> TRUE,
             timers |-> scheduled[1], keyboardTimer |-> scheduled[2], rafRef |-> 1]

\* the ways the slots of `slots` can be filled with pads of `mappings`
PadLists(slots, mappings) ==
  { ps \in [Slots -> { NoPad } \cup { Pad(i, m) : i \in slots, m \in mappings }] :
      \A i \in Slots : ps[i] # NoPad => ps[i].index = i }

Mounted(api) ==
  /\ apiSupported = api
  /\ events = << >>
  /\ uiState = mountEffect(api).uiState
  /\ listening = mountEffect(api).listening
  /\ timers = mountEffect(api).timers
  /\ keyboardTimer = mountEffect(api).keyboardTimer
  /\ rafRef = mountEffect(api).rafRef
  /\ unheardKeys = 0
  /\ keysHeld = {}
  /\ now = StartTime
  /\ activeIndex = NULL
  /\ keyboardModeEnabled = FALSE
  /\ keyboardPressed = {}
  /\ timeline = << >>
  /\ timelineEntries = << >>
  /\ sequenceActive = FALSE
  /\ lastInputAt = 0
  /\ frameCounter = 0
  /\ activePad = NoInput
  /\ pressedLabels = << >>
  /\ samplesInFrame = 0
  /\ runFrames = 0
  /\ motion = 0

InitWith(slots, mappings) == pads \in PadLists(slots, mappings) /\ Mounted(TRUE)

\* a browser without the Gamepad API lists no pads
InitUnsupported == pads = [i \in Slots |-> NoPad] /\ Mounted(FALSE)

\* ------------------------------------------------------------------------
\* Environment: pads come and go, time passes
\* ------------------------------------------------------------------------
\* a pad shows up in slot i; the browser may report it with gamepadconnected
PadAppears(i, m, report) ==
  /\ pads[i] = NoPad
  /\ report => Len(events) < MaxEvents
  /\ pads' = [pads EXCEPT ![i] = Pad(i, m)]
  /\ events' = IF report
                 THEN Append(events, [type |-> "gamepadconnected", gamepad |-> Pad(i, m)])
                 ELSE events
  /\ UNCHANGED << timers, now, activeIndex, keyboardVars, keyboardTimer,
                  timelineVars, uiState, mountVars, frameVars >>

\* the pad of slot i goes away; the browser may report it with gamepaddisconnected
PadVanishes(i, report) ==
  /\ pads[i] # NoPad
  /\ report => Len(events) < MaxEvents
  /\ pads' = [pads EXCEPT ![i] = NoPad]
  /\ events' = IF report
                 THEN Append(events, [type |-> "gamepaddisconnected", gamepad |-> pads[i]])
                 ELSE events
  /\ UNCHANGED << timers, now, activeIndex, keyboardVars, keyboardTimer,
                  timelineVars, uiState, mountVars, frameVars >>

\* d ms pass.  The code reads time only as differences from Date.now()
\* (now - lastInputAt, the delay of the timer), so the model keeps the
\* current instant at StartTime and moves what is stored d ms back: a pending
\* timer has d ms less to run, and a non-zero lastInputAt lies d ms further
\* in the past (never reaching 0, which stands for "no input").
Tick(d) ==
  /\ timers' = { [id |-> t.id, remaining |-> MaxOf(0, t.remaining - d)] : t \in timers }
  /\ lastInputAt' = IF lastInputAt = 0 THEN 0 ELSE MaxOf(1, lastInputAt - d)
  /\ UNCHANGED << envVars, now, activeIndex, keyboardVars, keyboardTimer,
                  timeline, timelineEntries, sequenceActive, uiState, mountVars,
                  frameVars >>

\* ------------------------------------------------------------------------
\* Event handlers.  A handler runs only once the mount effect has registered
\* it with window.addEventListener.
\* ------------------------------------------------------------------------
\* stop that clears the pressed buttons and leaves the mode as it is
keyboardStopKeepsMode(enabled, pressed) == << enabled, {} >>

\* stop that disables the mode and leaves the pressed buttons
keyboardStopKeepsPressed(enabled, pressed) == << FALSE, pressed >>

\* stop that does nothing
keyboardStopNever(enabled, pressed) == << enabled, pressed >>

\* KeyboardInputSource.stop: << keyboardModeEnabled, keyboardPressed >> afterwards
keyboardStop(enabled, pressed) ==
  IF ~enabled THEN << enabled, pressed >> ELSE << FALSE, {} >>

\* the handler with resetTimeline called whether or not a sequence is active
handleGamepadConnectedAlwaysResets ==
  /\ listening
  /\ Len(events) > 0
  /\ Head(events).type = "gamepadconnected"
  /\ LET gamepad == Head(events).gamepad
         stopped == keyboardStop(keyboardModeEnabled, keyboardPressed)
     IN /\ activeIndex' = gamepad.index
        /\ uiState' = ConnectedUi(gamepad)
        /\ keyboardModeEnabled' = stopped[1]
        /\ keyboardPressed' = stopped[2]
        /\ timers' = cancelKeyboardFallback(timers, keyboardTimer)
        /\ keyboardTimer' = NULL
        /\ timeline' = << >>
        /\ timelineEntries' = Annotate(<< >>)
  /\ events' = Tail(events)
  /\ keysHeld' = {}
  /\ UNCHANGED << pads, now, sequenceActive, lastInputAt, mountVars, frameVars >>

\* resetTimeline runs only when no sequence is active
handleGamepadConnected ==
  /\ listening
  /\ Len(events) > 0
  /\ Head(events).type = "gamepadconnected"
  /\ LET gamepad == Head(events).gamepad
         stopped == keyboardStop(keyboardModeEnabled, keyboardPressed)
     IN /\ activeIndex' = gamepad.index
        /\ uiState' = ConnectedUi(gamepad)
        /\ keyboardModeEnabled' = stopped[1]
        /\ keyboardPressed' = stopped[2]
        /\ timers' = cancelKeyboardFallback(timers, keyboardTimer)
        /\ keyboardTimer' = NULL
        /\ IF ~sequenceActive
             THEN timeline' = << >> /\ timelineEntries' = Annotate(<< >>)
             ELSE UNCHANGED << timeline, timelineEntries >>
  /\ events' = Tail(events)
  /\ keysHeld' = {}
  /\ UNCHANGED << pads, now, sequenceActive, lastInputAt, mountVars, frameVars >>

\* the handler without its call of scheduleKeyboardFallback
handleGamepadDisconnectedOnly ==
  /\ listening
  /\ Len(events) > 0
  /\ Head(events).type = "gamepaddisconnected"
  /\ activeIndex' = IF activeIndex = Head(events).gamepad.index THEN NULL ELSE activeIndex
  /\ events' = Tail(events)
  /\ UNCHANGED << pads, now, timers, keyboardTimer, keyboardVars, timelineVars, uiState,
                  mountVars, frameVars >>

handleGamepadDisconnected ==
  /\ listening
  /\ Len(events) > 0
  /\ Head(events).type = "gamepaddisconnected"
  /\ LET gamepad == Head(events).gamepad
         scheduled == scheduleKeyboardFallback(timers, keyboardTimer)
     IN /\ activeIndex' = IF activeIndex = gamepad.index THEN NULL ELSE activeIndex
        /\ timers' = scheduled[1]
        /\ keyboardTimer' = scheduled[2]
  /\ events' = Tail(events)
  /\ UNCHANGED << pads, now, keyboardVars, timelineVars, uiState, mountVars, frameVars >>

handleKeyDown(code) ==
  /\ listening
  /\ keyboardPressed' =
       IF ~keyboardModeEnabled THEN keyboardPressed
       ELSE IF KEY_TO_BUTTON_INDEX(code) = NULL THEN keyboardPressed
       ELSE keyboardPressed \cup { KEY_TO_BUTTON_INDEX(code) }
  /\ keysHeld' =
       IF keyboardModeEnabled /\ code \in OwnKeys
         THEN keysHeld \cup { code }
         ELSE keysHeld
  /\ UNCHANGED << envVars, timers, now, activeIndex, keyboardModeEnabled,
                  keyboardTimer, timelineVars, uiState, mountVars, frameVars >>

handleKeyUp(code) ==
  /\ listening
  /\ keyboardPressed' =
       IF ~keyboardModeEnabled THEN keyboardPressed
       ELSE IF KEY_TO_BUTTON_INDEX(code) = NULL THEN keyboardPressed
       ELSE keyboardPressed \ { KEY_TO_BUTTON_INDEX(code) }
  /\ keysHeld' = keysHeld \ { code }
  /\ UNCHANGED << envVars, timers, now, activeIndex, keyboardModeEnabled,
                  keyboardTimer, timelineVars, uiState, mountVars, frameVars >>

\* a keydown or keyup event while no listener is registered: no code runs
KeyUnheard(code) ==
  /\ ~listening
  /\ unheardKeys < MaxUnheard
  /\ unheardKeys' = unheardKeys + 1
  /\ UNCHANGED << envVars, timers, now, activeIndex, keyboardVars, keyboardTimer,
                  timelineVars, uiState, apiSupported, listening, rafRef, frameVars >>

\* a gamepadconnected or gamepaddisconnected event dispatched after the
\* listeners have been removed: no code runs
GamepadEventUnheard ==
  /\ ~listening
  /\ Len(events) > 0
  /\ events' = Tail(events)
  /\ UNCHANGED << pads, timers, now, activeIndex, keyboardVars, keyboardTimer,
                  timelineVars, uiState, mountVars, frameVars >>

\* the function the mount effect returns, which React calls when the
\* component unmounts: cancelKeyboardFallback, the pending frame request
\* cancelled and rafRef cleared, the four listeners removed.  The effect
\* returns it only past its early return, and it runs once.
mountEffectCleanup ==
  /\ listening
  /\ timers' = cancelKeyboardFallback(timers, keyboardTimer)
  /\ keyboardTimer' = NULL
  /\ rafRef' = NULL
  /\ listening' = FALSE
  /\ UNCHANGED << envVars, now, activeIndex, keyboardVars, timelineVars, uiState,
                  apiSupported, unheardKeys, frameVars >>

\* the callback without its look at the gamepads
KeyboardFallbackFiresUnchecked(t) ==
  /\ t \in timers
  /\ t.remaining = 0
  /\ timers' = timers \ { t }
  /\ activeIndex' = pickActiveGamepad(pads, activeIndex)
  /\ IF ~keyboardModeEnabled
       THEN keyboardModeEnabled' = TRUE /\ uiState' = KeyboardUi
       ELSE UNCHANGED << keyboardModeEnabled, uiState >>
  /\ keyboardTimer' = NULL
  /\ UNCHANGED << envVars, now, keyboardPressed, keysHeld, timelineVars, mountVars,
                  frameVars >>

\* the callback scheduleKeyboardFallback hands to setTimeout, run for timer t
KeyboardFallbackFires(t) ==
  /\ t \in timers
  /\ t.remaining = 0
  /\ timers' = timers \ { t }
  /\ LET gp == PickedPad(pads, activeIndex)
     IN /\ activeIndex' = pickActiveGamepad(pads, activeIndex)
        /\ IF gp = NoPad /\ ~keyboardModeEnabled
             THEN keyboardModeEnabled' = TRUE /\ uiState' = KeyboardUi
             ELSE UNCHANGED << keyboardModeEnabled, uiState >>
  /\ keyboardTimer' = NULL
  /\ UNCHANGED << envVars, now, keyboardPressed, keysHeld, timelineVars, mountVars,
                  frameVars >>

\* ------------------------------------------------------------------------
\* updateLoop: one animation frame, run for the request rafRef holds.
\* pressed are the buttons of the active gamepad that read pressed
\* (pressed || value > 0.5) in this frame.
\* ------------------------------------------------------------------------
\* KeyboardInputSource.getSnapshot with keyboard mode enabled
KeyboardSnapshot(pressed) ==
  [kind |-> "keyboard",
   mapping |-> "standard",
   pressed |-> { i \in pressed : i + 1 \in DOMAIN buttonNamesStandard }]

\* history: the stage of the Down, Down+Right, Right, Right+A motion after a frame
MotionAfter(stage, wasActive, pad) ==
  IF pad.kind = "none" \/ pad.mapping # "standard" THEN 0
  ELSE IF pad.pressed = {13} THEN (IF ~wasActive \/ stage = 1 THEN 1 ELSE 0)
  ELSE IF pad.pressed = {13, 15} THEN (IF stage \in {1, 2} THEN 2 ELSE 0)
  ELSE IF pad.pressed = {15} THEN (IF stage \in {2, 3} THEN 3 ELSE 0)
  ELSE IF pad.pressed = {0, 15} THEN (IF stage \in {3, 4} THEN 4 ELSE 0)
  ELSE 0

updateLoop(pressed) ==
  LET gamepad == PickedPad(pads, activeIndex)
      stopped == keyboardStop(keyboardModeEnabled, keyboardPressed)
      pad == IF gamepad # NoPad
               THEN [kind |-> "gamepad", mapping |-> gamepad.mapping, pressed |-> pressed]
             ELSE IF keyboardModeEnabled
               THEN KeyboardSnapshot(keyboardPressed)
             ELSE NoInput
      \* buttons.length > 0 && buttons.some(...): no button, none pressed
      anyPressed == pad.kind # "none" /\ pad.pressed # {}
      activates == anyPressed /\ ~sequenceActive
      \* after the first block (lines 417-427)
      lastInput1 == IF anyPressed THEN now ELSE lastInputAt
      active1 == sequenceActive \/ activates
      rows1 == IF activates THEN sampleTimeline(<< >>, pad) ELSE timeline
      \* the second block (lines 429-437)
      expires == active1 /\ lastInput1 # 0 /\ now - lastInput1 > SEQUENCE_IDLE_TIMEOUT_MS
      samples == active1 /\ ~expires /\ pad.kind # "none"
                   /\ frameCounter % SAMPLE_EVERY_N_FRAMES = 0
      rows2 == IF expires THEN << >>
               ELSE IF samples THEN sampleTimeline(rows1, pad)
               ELSE rows1
      published == activates \/ expires \/ samples
      sameRow == sequenceActive /\ Len(timeline) > 0
                   /\ timeline[Len(timeline)].labels = mergeDiagonals(PressedLabelsOf(pad))
  IN /\ rafRef # NULL
     /\ activeIndex' = pickActiveGamepad(pads, activeIndex)
     /\ IF gamepad # NoPad
          THEN /\ timers' = cancelKeyboardFallback(timers, keyboardTimer)
               /\ keyboardTimer' = NULL
               /\ keyboardModeEnabled' = stopped[1]
               /\ keyboardPressed' = stopped[2]
               /\ keysHeld' = {}
               /\ uiState' = ConnectedUi(gamepad)
          ELSE /\ UNCHANGED << timers, keyboardTimer, keyboardVars >>
               /\ uiState' = IF keyboardModeEnabled THEN uiState ELSE WaitingUi
     /\ activePad' = pad
     /\ sequenceActive' = (active1 /\ ~expires)
     /\ lastInputAt' = IF expires THEN 0 ELSE lastInput1
     /\ timeline' = rows2
     /\ timelineEntries' = IF published THEN Annotate(rows2) ELSE timelineEntries
     /\ pressedLabels' = IF activates \/ samples THEN PressedLabelsOf(pad) ELSE pressedLabels
     /\ frameCounter' = frameCounter + 1
     /\ samplesInFrame' = (IF activates THEN 1 ELSE 0) + (IF samples THEN 1 ELSE 0)
     /\ runFrames' = IF expires THEN 0
                     ELSE IF activates \/ samples
                       THEN (IF sameRow THEN runFrames + 1 ELSE 1)
                     ELSE runFrames
     /\ motion' = MotionAfter(motion, sequenceActive, pad)
     \* the request ids of requestAnimationFrame count up from 1
     /\ rafRef' = frameCounter + 2
     /\ UNCHANGED << envVars, now, apiSupported, listening, unheardKeys >>

\* ------------------------------------------------------------------------
\* Specifications
\* ------------------------------------------------------------------------
\* Spec: the whole controller.  Two gamepad slots that fill and empty with or
\* without an event, the keyboard, the fallback timer and the frame loop, up
\* to and past the unmount; a gamepad shows button A pressed or nothing.
Poses == { {}, {0} }
Keys == { "KeyZ", "F1", "constructor" }

Init == InitWith(Slots, {"standard"})

Frame == \E pressed \in Poses : frameCounter < MaxFrames /\ updateLoop(pressed)

Next ==
  \/ \E i \in Slots, report \in BOOLEAN : PadAppears(i, "standard", report)
  \/ \E i \in Slots, report \in BOOLEAN : PadVanishes(i, report)
  \/ Tick(500)
  \/ handleGamepadConnected
  \/ handleGamepadDisconnected
  \/ \E code \in Keys : handleKeyDown(code)
  \/ \E code \in Keys : handleKeyUp(code)
  \/ \E t \in timers : KeyboardFallbackFires(t)
  \/ Frame
  \/ mountEffectCleanup
  \/ GamepadEventUnheard

Spec == Init /\ [][Next]_vars

\* SpecMount: Spec started in a browser with or without the Gamepad API.
\* Without it the keys are still pressed and time still passes.
InitMount == Init \/ InitUnsupported

NextMount ==
  \/ Next
  \/ \E code \in Keys : KeyUnheard(code)

SpecMount == InitMount /\ [][NextMount]_vars

\* SpecMotion: one input source for the whole run, either a standard gamepad
\* in slot 0 or, with no gamepad, the keyboard once the fallback timer has
\* fired; the frames show the poses of a quarter-circle motion with button A.
MotionPoses == { {}, {13}, {13, 15}, {15}, {0, 15}, {0, 13, 15} }
MotionKeys == { "ArrowDown", "ArrowRight", "KeyZ" }

InitMotion == InitWith({0}, {"standard"})

FrameMotion ==
  \E pressed \in MotionPoses : frameCounter < MotionFrames /\ updateLoop(pressed)

NextMotion ==
  \/ Tick(501)
  \/ \E code \in MotionKeys : handleKeyDown(code)
  \/ \E code \in MotionKeys : handleKeyUp(code)
  \/ \E t \in timers : KeyboardFallbackFires(t)
  \/ FrameMotion

SpecMotion == InitMotion /\ [][NextMotion]_vars

\* SpecLong: a long run on a standard gamepad that stays plugged in.  Until
\* the timeline holds WarmupRows rows the player alternates button A and
\* nothing from frame to frame, so that every sample appends a row; after
\* that the frames show any of LongPoses.
LongPoses == { {}, {0}, {1}, {0, 1} }

LongInputs ==
  IF Len(timeline) < WarmupRows
    THEN { IF Len(timeline) > 0 /\ timeline[Len(timeline)].labels = << "A" >> THEN {} ELSE {0} }
    ELSE LongPoses

InitLong == InitWith({0}, {"standard"}) /\ pads[0] # NoPad

FrameLong == \E pressed \in LongInputs : frameCounter < LongFrames /\ updateLoop(pressed)

NextLong ==
  \/ PadAppears(1, "standard", TRUE)
  \/ Tick(501)
  \/ handleGamepadConnected
  \/ \E code \in Keys : handleKeyDown(code)
  \/ \E code \in Keys : handleKeyUp(code)
  \/ \E t \in timers : KeyboardFallbackFires(t)
  \/ FrameLong

SpecLong == InitLong /\ [][NextLong]_vars

\* SpecLabels: one gamepad of either mapping, and frames that show every
\* combination of LabelButtons (17 is a button beyond the standard names).
LabelButtons == { 0, 1, 12, 13, 14, 15, 16, 17 }

InitLabels == InitWith({0}, {"standard", "raw"}) /\ pads[0] # NoPad

FrameLabelled ==
  \E pressed \in SUBSET LabelButtons : frameCounter < LabelFrames /\ updateLoop(pressed)

NextLabels == FrameLabelled

SpecLabels == InitLabels /\ [][NextLabels]_vars

\* SpecLive: Spec with every removal of a gamepad reported by a
\* gamepaddisconnected event and the buttons of the gamepads at rest.  Events
\* are dispatched, due timers run, frames are painted and time passes: weak
\* fairness of each.  The component may unmount at any moment; nothing
\* obliges it to.
LivePoses == { {} }
\* the keys of the keyboard proper: one the table maps, one it does not
LiveKeys == { "KeyZ", "F1" }

FrameLive == \E pressed \in LivePoses : frameCounter < LiveFrames /\ updateLoop(pressed)

NextLive ==
  \/ \E i \in Slots, report \in BOOLEAN : PadAppears(i, "standard", report)
  \/ \E i \in Slots : PadVanishes(i, TRUE)
  \/ Tick(500)
  \/ handleGamepadConnected
  \/ handleGamepadDisconnected
  \/ \E code \in LiveKeys : handleKeyDown(code)
  \/ \E code \in LiveKeys : handleKeyUp(code)
  \/ \E t \in timers : KeyboardFallbackFires(t)
  \/ FrameLive
  \/ mountEffectCleanup
  \/ GamepadEventUnheard

SpecLive ==
  /\ Init
  /\ [][NextLive]_vars
  /\ WF_vars(Tick(500))
  /\ WF_vars(handleGamepadConnected)
  /\ WF_vars(handleGamepadDisconnected)
  /\ WF_vars(\E t \in timers : KeyboardFallbackFires(t))
  /\ WF_vars(FrameLive)

\* SpecFlags: one standard gamepad that stays plugged in; the frames
\* follow each other within the idle timeout and show the steps of the motion
\* ending on Down-Right with A, a disallowed direction (Up) or nothing.
FlagPoses == { {}, {13}, {13, 15}, {0, 13, 15}, {12} }

InitFlags == InitWith({0}, {"standard"}) /\ pads[0] # NoPad

FrameFlags == \E pressed \in FlagPoses : frameCounter < FlagFrames /\ updateLoop(pressed)

NextFlags == FrameFlags

SpecFlags == InitFlags /\ [][NextFlags]_vars

\* SpecRaw: the frames of SpecFlags on a gamepad whose mapping is not
\* "standard".
InitRaw == InitWith({0}, {"raw"}) /\ pads[0] # NoPad

SpecRaw == InitRaw /\ [][NextFlags]_vars

\* SpecRestart: the gamepad of SpecFlags; the frames show the steps of the
\* motion ending on Right with A, Up alone, and A together with a disallowed
\* direction: with Up, and with Left and Right at once (which merge into no
\* diagonal, so that the row holds a disallowed and an allowed direction).
RestartPoses == { {13}, {13, 15}, {0, 15}, {12}, {0, 12}, {0, 14, 15} }

FrameRestart ==
  \E pressed \in RestartPoses : frameCounter < RestartFrames /\ updateLoop(pressed)

NextRestart == FrameRestart

SpecRestart == InitFlags /\ [][NextRestart]_vars

\* SpecScroll: a standard gamepad that stays plugged in.  The player does
\* Down, Down with Right, then Down with Right and A, then alternates B and
\* nothing until the timeline holds WarmupRows rows, then shows either.
ScrollPoses == { {}, {1} }

ScrollInputs ==
  IF Len(timeline) = 0 THEN { {13} }
  ELSE IF Len(timeline) = 1 THEN { {13, 15} }
  ELSE IF Len(timeline) = 2 THEN { {0, 13, 15} }
  ELSE IF Len(timeline) < WarmupRows
    THEN { IF timeline[Len(timeline)].labels = << "B" >> THEN {} ELSE {1} }
  ELSE ScrollPoses

FrameScroll ==
  \E pressed \in ScrollInputs : frameCounter < ScrollFrames /\ updateLoop(pressed)

NextScroll ==
  \/ Tick(501)
  \/ FrameScroll

SpecScroll == InitLong /\ [][NextScroll]_vars

\* SpecKeys: no gamepad at all; the keyboard with two keys for button A
\* (KeyZ, Space) and one for Down.  A key comes up only after it went down
\* in keyboard mode.
AliasKeys == { "KeyZ", "Space", "ArrowDown" }

InitKeys == InitWith({}, {"standard"})

FrameKeys == frameCounter < KeyFrames /\ updateLoop({})

NextKeys ==
  \/ Tick(500)
  \/ \E code \in AliasKeys : handleKeyDown(code)
  \/ \E code \in keysHeld : handleKeyUp(code)
  \/ \E t \in timers : KeyboardFallbackFires(t)
  \/ FrameKeys

SpecKeys == InitKeys /\ [][NextKeys]_vars

\* ------------------------------------------------------------------------
\* Claims
\* ------------------------------------------------------------------------
AnyPadPresent == \E i \in Slots : pads[i] # NoPad

IsFrameStep == frameCounter' # frameCounter

LastRow(rows) == rows[Len(rows)]

\* the name the claims give button i of a standard mapping
StandardName(i) ==
  CASE i = 0 -> "A" [] i = 1 -> "B" [] i = 2 -> "X" [] i = 3 -> "Y"
    [] i = 4 -> "L1" [] i = 5 -> "R1" [] i = 6 -> "L2" [] i = 7 -> "R2"
    [] i = 8 -> "Select" [] i = 9 -> "Start" [] i = 10 -> "L3" [] i = 11 -> "R3"
    [] i = 12 -> "Up" [] i = 13 -> "Down" [] i = 14 -> "Left" [] i = 15 -> "Right"
    [] i = 16 -> "Home"

\* C1: the timeline never holds more than MAX_SNAPSHOT_ROWS (20) rows, and
\* neither does the published timeline.
C1_TimelineBounded ==
  /\ Len(timeline) <= MAX_SNAPSHOT_ROWS
  /\ Len(timelineEntries) <= MAX_SNAPSHOT_ROWS
  /\ MAX_SNAPSHOT_ROWS = 20

\* C1 witness: the timeline is full and its oldest row, the activating row
\* (which always has a duration of 2 or more), has been evicted
C1_Witness ==
  /\ Len(timeline) = MAX_SNAPSHOT_ROWS
  /\ sequenceActive
  /\ \A k \in 1..Len(timeline) : timeline[k].duration = 1

C2_NoAdjacentEqualRows ==
  \A k \in 1..(Len(timeline) - 1) : timeline[k].labels # timeline[k + 1].labels

C2_SampleExtendsOrAppends ==
  (IsFrameStep /\ sequenceActive /\ Len(timeline) > 0 /\ samplesInFrame' = 1)
    => LET sampled == mergeDiagonals(PressedLabelsOf(activePad'))
       IN IF sampled = LastRow(timeline).labels
            THEN timeline' = [timeline EXCEPT ![Len(timeline)].duration = @ + 1]
            ELSE /\ LastRow(timeline') = [labels |-> sampled, duration |-> 1]
                 /\ \/ timeline' = Append(timeline, LastRow(timeline'))
                    \/ /\ Len(timeline) = MAX_SNAPSHOT_ROWS
                       /\ timeline' = Tail(Append(timeline, LastRow(timeline')))

\* C2: no two adjacent timeline rows carry the same labels; a frame that takes
\* one sample of an active sequence either finds the last row's labels and
\* adds 1 to that row's duration, appending nothing, or appends a row of
\* duration 1 with the sampled labels.
C2_RunLengthRows == [](C2_NoAdjacentEqualRows) /\ [][C2_SampleExtendsOrAppends]_vars

\* C2 witness: a later row was appended and then extended by an equal sample
C2_Witness ==
  /\ Len(timeline) >= 2
  /\ LastRow(timeline).duration >= 2
  /\ samplesInFrame = 1

\* C3: the sampler takes exactly one sample per frame of an active sequence
\* with an input source, so the duration of the newest row is the number of
\* consecutive such frames, the activating frame included, that showed its
\* labels.
C3_DurationCountsFrames ==
  /\ samplesInFrame <= 1
  /\ (sequenceActive /\ Len(timeline) > 0) => LastRow(timeline).duration = runFrames

\* C4: on a standard mapping, a frame with exactly one of Up, Down and
\* exactly one of Left, Right pressed is recorded with the one matching
\* diagonal label and no other direction label, whatever else is pressed.
C4_DiagonalMerged ==
  (samplesInFrame > 0 /\ activePad.mapping = "standard" /\ Len(timeline) > 0)
    => \A v \in {12, 13}, h \in {14, 15} :
         (activePad.pressed \cap {12, 13, 14, 15} = {v, h})
           => LET diagonal == StandardName(v) \o "-" \o StandardName(h)
                  labels == LastRow(timeline).labels
              IN /\ Cardinality({ k \in 1..Len(labels) : labels[k] = diagonal }) = 1
                 /\ \A k \in 1..Len(labels) :
                      labels[k] \in DIRECTION_LABELS => labels[k] = diagonal
                 /\ Len(labels) = Cardinality(activePad.pressed) - 1

\* C4 witness: Down and Left were pressed together with A and Home
C4_Witness ==
  /\ samplesInFrame > 0
  /\ activePad.mapping = "standard"
  /\ activePad.pressed = {0, 13, 14, 16}
  /\ LastRow(timeline).labels = << "A", "Down-Left", "Home" >>

\* C5: a row is flagged as hadouken only if it holds A and the rows up to and
\* including it hold, in this order, a row with Down, a later row with
\* Down-Right and a later row with Right.
C5_FlaggedOnlyAfterDownDownRightRight ==
  \A k \in 1..Len(timelineEntries) :
    timelineEntries[k].hadouken =>
      /\ Includes(timelineEntries[k].labels, "A")
      /\ \E a, b, c \in 1..k :
           /\ a < b /\ b < c
           /\ Includes(timelineEntries[a].labels, "Down")
           /\ Includes(timelineEntries[b].labels, "Down-Right")
           /\ Includes(timelineEntries[c].labels, "Right")

\* C6: from an inactive sequence on a standard-mapping input, frames showing
\* Down only, then Down and Right, then Right only, then Right with A (each
\* for one or more frames) end with a published timeline that holds a row
\* with A flagged as hadouken.
C6_MotionIsFlagged ==
  motion = 4 =>
    \E k \in 1..Len(timelineEntries) :
      Includes(timelineEntries[k].labels, "A") /\ timelineEntries[k].hadouken

\* C6 witness: the motion was completed on the emulated gamepad
C6_Witness == motion = 4 /\ activePad.kind = "keyboard" /\ LastRow(timelineEntries).hadouken

C7_FrameWithPad ==
  (IsFrameStep /\ AnyPadPresent)
    => /\ ~keyboardModeEnabled'
       /\ keyboardPressed' = {}
       /\ keyboardTimer' = NULL
       /\ timers' = {}
       /\ activePad'.kind = "gamepad"

\* C7: a physical gamepad takes precedence over the keyboard: a frame that
\* runs while a gamepad is present ends with keyboard mode disabled, no
\* emulated button pressed, no fallback timer pending, and the gamepad as
\* the input it sampled.
C7_GamepadTakesPrecedence == [][C7_FrameWithPad]_vars

\* C7 witness: a frame has sampled the gamepad of slot 1
C7_Witness ==
  /\ activePad.kind = "gamepad"
  /\ uiState.statusText = "Connected"
  /\ ~keyboardModeEnabled
  /\ \E k \in 1..Len(timeline) : timeline[k].duration >= 2
  /\ pads[0] = NoPad /\ pads[1] # NoPad

C8_EnabledByTimerStep ==
  (~keyboardModeEnabled /\ keyboardModeEnabled')
    => /\ ~AnyPadPresent
       /\ \E t \in timers : t.remaining = 0 /\ timers' = timers \ { t }
       /\ ~IsFrameStep
       /\ events' = events
       /\ keyboardPressed' = keyboardPressed

\* C8: keyboard mode goes from disabled to enabled only in the callback of
\* the fallback timer, once its 1000 ms have run down, and only with no
\* gamepad present; no frame, key event or gamepad event enables it.
C8_EnabledOnlyByTimer == [][C8_EnabledByTimerStep]_vars

\* C8 witness: the timer callback has enabled keyboard mode
C8_Witness ==
  /\ keyboardModeEnabled
  /\ uiState.statusText = "Keyboard mode"
  /\ timers = {}
  /\ ~AnyPadPresent

\* C9: while the component stays mounted, from any moment on at which no
\* gamepad is present and none appears again, keyboard mode is eventually
\* enabled and the status leaves "Waiting...".
C9_KeyboardEventuallyEnabled ==
  []listening
    => []([](~AnyPadPresent)
            => <>(keyboardModeEnabled /\ uiState.statusText = "Keyboard mode"))

\* C9 witness: a frame sampled a gamepad, which cancelled the timer of the
\* mount, and keyboard mode was enabled after that gamepad had gone
C9_Witness ==
  /\ keyboardModeEnabled
  /\ uiState.statusText = "Keyboard mode"
  /\ ~AnyPadPresent
  /\ activePad.kind = "gamepad"

\* C10: a pressed button i is labelled with its standard name when the
\* mapping is "standard" and 0 <= i <= 16, and "Button i" in every other case.
C10_Labels ==
  samplesInFrame > 0 =>
    LET order == Ascending(activePad.pressed)
    IN /\ Len(pressedLabels) = Len(order)
       /\ \A k \in 1..Len(order) :
            pressedLabels[k] =
              IF activePad.mapping = "standard" /\ order[k] >= 0 /\ order[k] <= 16
                THEN StandardName(order[k])
                ELSE "Button " \o ToString(order[k])

\* C10 witness: a gamepad of the standard mapping showed Home and a button
\* beyond the standard names
C10_Witness ==
  /\ samplesInFrame > 0
  /\ activePad.mapping = "standard"
  /\ activePad.pressed = {16, 17}
  /\ pressedLabels = << "Home", "Button 17" >>

\* the direction labels of a row, in order
DirectionsOf(labels) == SelectSeq(labels, LAMBDA l : l \in DIRECTION_LABELS)

\* the other labels of a row, in order
OthersOf(labels) == SelectSeq(labels, LAMBDA l : l \notin DIRECTION_LABELS)

\* the diagonal labels one half of which is direction n
DiagonalsWith(n) ==
  CASE n = "Up" -> { "Up-Right", "Up-Left" }
    [] n = "Down" -> { "Down-Right", "Down-Left" }
    [] n = "Left" -> { "Up-Left", "Down-Left" }
    [] n = "Right" -> { "Up-Right", "Down-Right" }

\* the pressed buttons among Up (12), Down (13), Left (14), Right (15)
PressedDirections == activePad.pressed \cap { 12, 13, 14, 15 }

\* the latest frame sampled a standard-mapping input into the newest row
SampledStandard ==
  samplesInFrame > 0 /\ activePad.mapping = "standard" /\ Len(timeline) > 0

C11_IdleFrame ==
  (/\ IsFrameStep
   /\ sequenceActive
   /\ lastInputAt # 0
   /\ now - lastInputAt > 200
   /\ activePad'.pressed = {})
    => (~sequenceActive' /\ timeline' = << >>)

\* C11: as the hint says, an active sequence resets after 0.2 s idle: a frame
\* with no button pressed that runs more than 200 ms after the last frame
\* with a button pressed deactivates the sequence and empties the timeline.
C11_ResetsAfter200ms == [][C11_IdleFrame]_vars

\* a sample has pushed a row and shifted the oldest one out
C12_Evicts ==
  /\ IsFrameStep
  /\ sequenceActive /\ sequenceActive'
  /\ Len(timeline) >= 2
  /\ Len(timeline') = Len(timeline)
  /\ \A k \in 1..(Len(timeline) - 1) : timeline'[k] = timeline[k + 1]
  /\ LastRow(timeline').duration = 1

\* C12: as the hint says, the timeline shows the last 30 snapshots: a row is
\* evicted only when a row is appended to a timeline that holds 30 rows.
C12_EvictsOnlyAt30 == [][C12_Evicts => Len(timeline) = 30]_vars

C13_FrameAfterSample ==
  (IsFrameStep /\ sequenceActive /\ samplesInFrame > 0) => samplesInFrame' = 0

\* C13: as the hint says, the input is sampled every 2 frames: of two
\* consecutive frames of an active sequence at most one records a sample.
C13_SampledEverySecondFrame == [][C13_FrameAfterSample]_vars

\* C14: without getGamepads and webkitGetGamepads the controller stays in
\* the "Gamepad API not supported" state for ever: status shown as
\* disconnected, no listener registered, no fallback timer, no frame
\* requested or run, keyboard mode never enabled, no sequence ever active.
C14_UnsupportedIsTerminal ==
  ~apiSupported =>
    /\ uiState.statusText = "Gamepad API not supported"
    /\ uiState.statusVariant = "disconnected"
    /\ ~listening
    /\ timers = {} /\ keyboardTimer = NULL
    /\ rafRef = NULL /\ frameCounter = 0
    /\ ~keyboardModeEnabled /\ keyboardPressed = {}
    /\ ~sequenceActive /\ timeline = << >>

\* C14 witness: the mount effect found no Gamepad API, and keys have been
\* pressed since
C14_Witness ==
  /\ ~apiSupported
  /\ uiState = UnsupportedUi
  /\ unheardKeys = MaxUnheard
  /\ ~keyboardModeEnabled

\* C15: after every frame and every handler the sequence is active exactly
\* when the timeline holds at least one row.
C15_ActiveIffRows == sequenceActive <=> Len(timeline) > 0

\* C15 witness: a sequence begun on the keyboard is still active, with its
\* rows, after handleGamepadConnected has stopped keyboard mode
C15_Witness ==
  /\ sequenceActive
  /\ Len(timeline) > 0
  /\ activePad.kind = "keyboard"
  /\ ~keyboardModeEnabled
  /\ uiState.statusText = "Connected"

C16_FrameOfActiveSequence ==
  (IsFrameStep /\ sequenceActive)
    => LET idle == activePad'.pressed = {}
           elapsed == now - lastInputAt
       IN /\ ~sequenceActive' <=> (idle /\ elapsed > 500)
          /\ ~sequenceActive' => (timeline' = << >> /\ lastInputAt' = 0)
          /\ ~idle => lastInputAt' = now

C16_FrameWithInput ==
  (IsFrameStep /\ activePad'.pressed # {}) => (sequenceActive' /\ lastInputAt' = now)

\* C16: a frame deactivates an active sequence exactly when it shows no
\* pressed button and more than 500 ms have passed since the last frame that
\* showed one; deactivation empties the timeline and zeroes lastInputAt; a
\* frame that shows a pressed button always ends with the sequence active.
C16_DeactivatedOnlyWhenIdle ==
  [][C16_FrameOfActiveSequence /\ C16_FrameWithInput]_vars

\* C16 witness: a sequence that had been sampled was deactivated
C16_Witness ==
  /\ ~sequenceActive
  /\ pressedLabels # << >>
  /\ timeline = << >>
  /\ lastInputAt = 0

C17_AppendToFull ==
  (/\ IsFrameStep
   /\ sequenceActive /\ sequenceActive'
   /\ Len(timeline) = MAX_SNAPSHOT_ROWS
   /\ mergeDiagonals(PressedLabelsOf(activePad')) # LastRow(timeline).labels)
    => /\ Len(timeline') = MAX_SNAPSHOT_ROWS
       /\ \A k \in 1..(MAX_SNAPSHOT_ROWS - 1) : timeline'[k] = timeline[k + 1]
       /\ timeline'[MAX_SNAPSHOT_ROWS] =
            [labels |-> mergeDiagonals(PressedLabelsOf(activePad')), duration |-> 1]

\* C17: appending a row to a timeline of MAX_SNAPSHOT_ROWS rows removes
\* exactly the oldest row; the other rows keep their order, labels and
\* durations, and the new row is last.
C17_RollingWindow == [][C17_AppendToFull]_vars

\* C17 witness: a full timeline whose first row has no labels, which the
\* first row of a sequence never is: the rows before it were shifted out
C17_Witness ==
  /\ Len(timeline) = MAX_SNAPSHOT_ROWS
  /\ timeline[1].labels = << >>
  /\ LastRow(timeline).labels = << "B" >>
  /\ LastRow(timeline).duration = 1

\* C18: a row sampled from a standard-mapping input never holds both an
\* unmerged vertical label (Up, Down) and an unmerged horizontal one
\* (Left, Right).
C18_NoPairLeftUnmerged ==
  SampledStandard =>
    LET labels == LastRow(timeline).labels
    IN ~(/\ \E k \in 1..Len(labels) : labels[k] \in { "Up", "Down" }
         /\ \E k \in 1..Len(labels) : labels[k] \in { "Left", "Right" })

\* C18 witness: Up, Down and Left pressed with B: Up took Left, its second
\* choice, and Down stayed
C18_Witness ==
  /\ SampledStandard
  /\ activePad.pressed = { 1, 12, 13, 14 }
  /\ LastRow(timeline).labels = << "B", "Up-Left", "Down" >>

\* C19: each pressed direction goes into at most one diagonal and a vertical
\* direction pairs with Right before Left: Up, Left, Right give Up-Right and
\* Left; Up, Down, Right give Up-Right and Down; all four give Up-Right and
\* Down-Left; Up with Down, or Left with Right, stay unmerged.
C19_PairingOrder ==
  SampledStandard =>
    LET out == DirectionsOf(LastRow(timeline).labels)
    IN /\ PressedDirections = { 12, 14, 15 } => out = << "Up-Right", "Left" >>
       /\ PressedDirections = { 12, 13, 15 } => out = << "Up-Right", "Down" >>
       /\ PressedDirections = { 12, 13, 14, 15 } => out = << "Up-Right", "Down-Left" >>
       /\ PressedDirections = { 12, 13 } => out = << "Up", "Down" >>
       /\ PressedDirections = { 14, 15 } => out = << "Left", "Right" >>
       /\ \A n \in { "Up", "Down", "Left", "Right" } :
            Cardinality({ k \in 1..Len(out) : out[k] \in DiagonalsWith(n) }) <= 1

\* C19 witness: all four directions pressed with A
C19_Witness ==
  /\ SampledStandard
  /\ activePad.pressed = { 0, 12, 13, 14, 15 }
  /\ LastRow(timeline).labels = << "A", "Up-Right", "Down-Left" >>

\* C20: the merged row holds the non-direction labels of the pressed buttons
\* once each and in their order, stands for every pressed direction exactly
\* once (as itself or as half of one diagonal) and for no other, and is
\* shorter than the pressed labels by the number of its diagonals.
C20_NothingLostOrDuplicated ==
  (samplesInFrame > 0 /\ Len(timeline) > 0) =>
    LET out == LastRow(timeline).labels
        diagonals == { k \in 1..Len(out) :
                         out[k] \in DIRECTION_LABELS \ { "Up", "Down", "Left", "Right" } }
    IN /\ OthersOf(out) = OthersOf(pressedLabels)
       /\ \A n \in { "Up", "Down", "Left", "Right" } :
            Cardinality({ k \in 1..Len(out) : out[k] = n \/ out[k] \in DiagonalsWith(n) })
              = IF Includes(pressedLabels, n) THEN 1 ELSE 0
       /\ Len(out) = Len(pressedLabels) - Cardinality(diagonals)

\* C20 witness: Up and Right pressed between A and a button without a name
C20_Witness ==
  /\ samplesInFrame > 0
  /\ activePad.pressed = { 0, 12, 15, 17 }
  /\ pressedLabels = << "A", "Up", "Right", "Button 17" >>
  /\ LastRow(timeline).labels = << "A", "Up-Right", "Button 17" >>

\* the directions that are no step of the motion
DisallowedLabels == { "Up", "Left", "Up-Left", "Up-Right", "Down-Left" }

HasDisallowed(labels) == \E k \in 1..Len(labels) : labels[k] \in DisallowedLabels

\* the index of the most recent row before row j with a disallowed direction;
\* 0 when there is none
LastDisallowedBefore(entries, j) ==
  LET S == { d \in 1..(j - 1) : HasDisallowed(entries[d].labels) }
  IN IF S = {} THEN 0 ELSE CHOOSE d \in S : \A e \in S : e <= d

\* C21: a row with A is not flagged when an earlier row with A lies after the
\* most recent earlier row with a disallowed direction (or after the start of
\* the timeline); so between any two flagged rows of a published timeline
\* lies a row with a disallowed direction.
C21_OnlyFirstPressFlagged ==
  /\ \A j \in 1..Len(timelineEntries) :
       (\E i \in 1..(j - 1) :
          /\ i > LastDisallowedBefore(timelineEntries, j)
          /\ Includes(timelineEntries[i].labels, "A"))
         => ~timelineEntries[j].hadouken
  /\ \A i, j \in 1..Len(timelineEntries) :
       (i < j /\ timelineEntries[i].hadouken /\ timelineEntries[j].hadouken)
         => \E k \in (i + 1)..(j - 1) : HasDisallowed(timelineEntries[k].labels)

\* C21 witness: two flagged rows with Up between them, and a row with A after
\* a flagged row that is not flagged
C21_Witness ==
  /\ Len(timelineEntries) = 7
  /\ timelineEntries[3].hadouken
  /\ timelineEntries[4].labels = << "Up" >>
  /\ timelineEntries[7].hadouken

\* the rows of the published timeline after row d
RowsAfter(d) == SubSeq(timelineEntries, d + 1, Len(timelineEntries))

\* a row holding A with a disallowed direction is not flagged
C22_PressWithDisallowed(j) ==
  (Includes(timelineEntries[j].labels, "A") /\ HasDisallowed(timelineEntries[j].labels))
    => ~timelineEntries[j].hadouken

\* the steps that make row j flagged, a row with Down and a later row with
\* Down-Right, lie after row d
C22_StepsAfter(j, d) ==
  timelineEntries[j].hadouken =>
    \E a, b \in (d + 1)..(j - 1) :
      /\ a < b
      /\ Includes(timelineEntries[a].labels, "Down")
      /\ Includes(timelineEntries[b].labels, "Down-Right")

\* C22 as stated: a row holding A with a disallowed direction is never
\* flagged; for any other row with A only the rows after the most recent
\* earlier row with a disallowed direction count, so that its flag is the one
\* those rows give on their own; a flagged row has its Down and Down-Right
\* steps after that row.
C22_OnlyRowsAfterCount ==
  \A j \in 1..Len(timelineEntries) :
    LET d == LastDisallowedBefore(timelineEntries, j)
    IN /\ C22_PressWithDisallowed(j)
       /\ C22_StepsAfter(j, d)
       /\ (Includes(timelineEntries[j].labels, "A") /\ ~HasDisallowed(timelineEntries[j].labels))
            => timelineEntries[j].hadouken = isHadoukenSequenceEndingAt(RowsAfter(d), j - d)

\* C22, amended: a row holding A with a disallowed direction is never
\* flagged; for any other row with A, when the most recent earlier row with a
\* disallowed direction itself holds A the row is not flagged, and otherwise
\* its flag is the one the rows after that row give on their own; a flagged
\* row has its Down and Down-Right steps after that row.
C22_DisallowedRestartsMotion ==
  \A j \in 1..Len(timelineEntries) :
    LET d == LastDisallowedBefore(timelineEntries, j)
    IN /\ C22_PressWithDisallowed(j)
       /\ C22_StepsAfter(j, d)
       /\ (Includes(timelineEntries[j].labels, "A") /\ ~HasDisallowed(timelineEntries[j].labels))
            => timelineEntries[j].hadouken =
                 IF d > 0 /\ Includes(timelineEntries[d].labels, "A")
                   THEN FALSE
                   ELSE isHadoukenSequenceEndingAt(RowsAfter(d), j - d)

\* C22 witness: the motion ended on a row with A, Left and Right, which is
\* not flagged; the motion done again after it ended on a row with A and
\* Right, not flagged either because of the A of that earlier row
C22_Witness ==
  /\ Len(timelineEntries) = 6
  /\ timelineEntries[1].labels = << "Down" >>
  /\ timelineEntries[2].labels = << "Down-Right" >>
  /\ timelineEntries[3].labels = << "A", "Left", "Right" >>
  /\ ~timelineEntries[3].hadouken
  /\ timelineEntries[4].labels = << "Down" >>
  /\ timelineEntries[5].labels = << "Down-Right" >>
  /\ timelineEntries[6].labels = << "A", "Right" >>
  /\ ~timelineEntries[6].hadouken

C23_FlagsKept ==
  (IsFrameStep /\ sequenceActive /\ sequenceActive')
    => LET shift == IF C12_Evicts THEN 1 ELSE 0
       IN \A k \in 1..Len(timelineEntries) :
            (k - shift >= 1 /\ k - shift <= Len(timelineEntries'))
              => timelineEntries'[k - shift].hadouken = timelineEntries[k].hadouken

\* C23: the flag of a published row never changes while the row stays in
\* the timeline, whatever rows are appended, extended or evicted.
C23_FlagStable == [][C23_FlagsKept]_vars

\* C24: every label sampled from a gamepad whose mapping is not "standard"
\* is "Button i": no row holds a direction or diagonal label and no row is
\* flagged.
C24_RawLabelsOnly ==
  pads[0].mapping = "raw" =>
    /\ \A k \in 1..Len(timeline) : \A n \in 1..Len(timeline[k].labels) :
         /\ \E i \in 0..17 : timeline[k].labels[n] = "Button " \o ToString(i)
         /\ timeline[k].labels[n] \notin DIRECTION_LABELS
    /\ \A k \in 1..Len(timelineEntries) :
         /\ ~timelineEntries[k].hadouken
         /\ \A n \in 1..Len(timelineEntries[k].labels) :
              \E i \in 0..17 : timelineEntries[k].labels[n] = "Button " \o ToString(i)

\* C24 witness: the motion was done on a gamepad of a raw mapping
C24_Witness ==
  /\ pads[0].mapping = "raw"
  /\ Len(timelineEntries) = 3
  /\ timelineEntries[1].labels = << "Button 13" >>
  /\ timelineEntries[2].labels = << "Button 13", "Button 15" >>
  /\ timelineEntries[3].labels = << "Button 0", "Button 13", "Button 15" >>

C25_KeyStep ==
  /\ (~keyboardModeEnabled /\ ~keyboardModeEnabled') => keyboardPressed' = keyboardPressed
  /\ (keyboardModeEnabled /\ ~keyboardModeEnabled') => keyboardPressed' = {}

\* a keydown or keyup of a key the table does not map leaves the set as it is
C25_UnmappedKeyStep ==
  \A code \in Keys \ OwnKeys :
    (handleKeyDown(code) \/ handleKeyUp(code)) => keyboardPressed' = keyboardPressed

\* the set is non-empty only in keyboard mode, and holds button indices only
C25_PressedInMode ==
  /\ keyboardPressed # {} => keyboardModeEnabled
  /\ NULL \notin keyboardPressed

C26_KeyboardFrame ==
  (IsFrameStep /\ activePad'.kind = "keyboard")
    => activePad'.pressed = { KEY_TO_BUTTON_INDEX(code) : code \in keysHeld }

\* C26: in keyboard mode a frame reports emulated button i pressed exactly
\* when a key mapped to i that went down in keyboard mode is still held.
C26_MirrorsKeyboard == [][C26_KeyboardFrame]_vars

C27_TimerStep ==
  /\ (timers # {} /\ timers' # {}) =>
       \A t \in timers' : \E u \in timers : u.id = t.id /\ t.remaining <= u.remaining
  /\ (keyboardModeEnabled' /\ ~keyboardModeEnabled) =>
       \E t \in timers : t.id = keyboardTimer /\ t.remaining = 0

\* C27: at most one fallback timer is pending and keyboardTimerRef holds its
\* id exactly while it is; scheduling while one is pending adds no timer and
\* gives the pending one no more time; the callback that enables keyboard
\* mode is that of the timer keyboardTimerRef names, never a cancelled one.
C27_OneFallbackTimer ==
  /\ [](Cardinality(timers) <= 1)
  /\ [](keyboardTimer # NULL <=> timers # {})
  /\ [](\A t \in timers : t.id = keyboardTimer)
  /\ [][C27_TimerStep]_vars

\* C27 witness: a frame on a gamepad cancelled the timer of the mount, the
\* gamepad went, and the timer scheduled then has half run down
C27_Witness ==
  /\ activePad.kind = "gamepad"
  /\ ~AnyPadPresent
  /\ keyboardTimer # NULL
  /\ \E t \in timers : t.remaining = 500

C28_Poll ==
  (\/ IsFrameStep
   \/ /\ events' = events
      /\ listening'
      /\ \E t \in timers : t.remaining = 0 /\ timers' = timers \ { t })
    => /\ IF activeIndex # NULL /\ pads[activeIndex] # NoPad
            THEN activeIndex' = activeIndex
          ELSE IF AnyPadPresent
            THEN /\ activeIndex' \in Slots
                 /\ pads[activeIndex'] # NoPad
                 /\ \A i \in Slots : pads[i] # NoPad => activeIndex' <= i
          ELSE activeIndex' = NULL
       /\ activeIndex' = NULL <=> ~AnyPadPresent
       /\ (IsFrameStep /\ AnyPadPresent) =>
            uiState'.gamepadName = "Gamepad " \o ToString(activeIndex')

\* C28: a poll (a frame, or the callback of the fallback timer) keeps the active index while its slot still holds a gamepad,
\* even with a gamepad in a lower slot; otherwise it takes the lowest slot
\* that holds one; the index is null after a poll exactly when no gamepad is
\* present.  A frame shows the gamepad of the active index.
C28_StickySelection == [][C28_Poll]_vars

\* C28 witness: a frame sampled the gamepad of slot 1 with one in slot 0
C28_Witness ==
  /\ activeIndex = 1
  /\ pads[0] # NoPad /\ pads[1] # NoPad
  /\ frameCounter > 0
  /\ activePad.kind = "gamepad"
  /\ uiState.gamepadName = "Gamepad 1"

C29_Frame ==
  IsFrameStep =>
    IF AnyPadPresent
      THEN /\ uiState'.statusText = "Connected"
           /\ uiState'.statusVariant = "connected"
           /\ \E i \in Slots : pads[i] # NoPad /\ uiState'.gamepadName = PadId(pads[i])
           /\ activePad'.kind = "gamepad"
    ELSE IF keyboardModeEnabled
      THEN /\ uiState'.statusText = "Keyboard mode"
           /\ uiState'.gamepadName = "Keyboard emulation"
           /\ uiState'.statusVariant = "connected"
           /\ activePad'.kind = "keyboard"
    ELSE /\ uiState'.statusText = "Waiting..."
         /\ uiState'.gamepadName = "No gamepad connected"
         /\ uiState'.statusVariant = "disconnected"
         /\ activePad'.kind = "none"

\* C29: after every frame the status shown is that of the input the frame
\* used: "Connected" with the gamepad's id when a gamepad is present,
\* "Keyboard mode" when none is and keyboard mode is enabled, "Waiting..."
\* otherwise.
C29_StatusMatchesSource == [][C29_Frame]_vars

\* C29 witness: two frames ran in keyboard mode and sampled a pressed key
C29_Witness ==
  /\ activePad.kind = "keyboard"
  /\ uiState.statusText = "Keyboard mode"
  /\ frameCounter = 2
  /\ sequenceActive
====
